---------------------------- MODULE Spec2Model ----------------------------
(***************************************************************************)
(* The concurrent batch loader of lib/data_loader/src/lib.rs:              *)
(* DataLoader::new spawns num_workers threads that drain slices of a      *)
(* mutex-guarded index queue, build a batch from each slice and send it    *)
(* on an unbounded channel; DataLoaderIter::next receives; Drop joins.     *)
(* With it gen_rnn_train_data, the windowing function of the same file,    *)
(* and the Chinese-mode Vocabulary of llm/src/vocab.rs.                    *)
(***************************************************************************)
EXTENDS Integers, Sequences, FiniteSets, TLC

\* ------------------------------------------------------------------ bounds
MaxLen == 3
MaxBatch == 3
MaxWorkers == 2
MaxItems == 4
MaxWindow == 3
MaxStride == 2
MaxText == 2

\* ------------------------------------------------------------------- state
VARIABLES
    dataset_len,    \* dataset.len()
    batch_size,     \* argument of DataLoader::new
    shuffle,        \* argument of DataLoader::new
    num_workers,    \* argument of DataLoader::new
    drop_last,      \* argument of DataLoader::new
    order0,         \* the index vector as it is when the queue is built
    indices,        \* Arc<Mutex<VecDeque<usize>>>: the queue's contents
    lock,           \* the mutex: 0 when free, else the worker holding it
    wpc,            \* each worker thread's position
    seen_len,       \* indices.len() as the length check read it, kept until the drain
    batch_indices,  \* each worker's local batch_indices
    drained,        \* history: the slices drained from the queue, in order
    channel,        \* batches sent and not yet received
    sender_alive,   \* the sender DataLoader::new itself holds
    receiver_alive, \* the receiver the DataLoader owns
    sent,           \* history: how many sends succeeded
    received,       \* history: the batches next() returned, in order
    last_next,      \* what the latest call of next() returned
    mpc,            \* the caller thread's position
    spawned,        \* worker_handles.len() while new runs
    joined,         \* handles Drop::drop has joined so far
    \* gen_rnn_train_data
    items,          \* argument items
    window,         \* argument batch_size (the window length)
    stride,         \* argument stride
    overflow_checks,\* the build: usize arithmetic panics on overflow, or wraps
    start_pos,      \* local start_pos
    end_pos,        \* local end_pos
    train_data,     \* local train_data
    gpc,            \* position: "idle", "loop", "done" (returned) or "panicked"
    \* Vocabulary (SentenceType::Chinese)
    text,           \* the tokens of the text given to Vocabulary::new
    sentence,       \* the tokens of the sentence given to encode
    tokens_to_id,   \* field tokens_to_id
    id_to_tokens,   \* field id_to_tokens
    max_id,         \* field max_id
    token_ids,      \* the result of encode
    decoded,        \* the result of decode
    vpc             \* position: "idle", "new", "encode", "decode" or "done"

config == <<dataset_len, batch_size, shuffle, num_workers, drop_last, order0>>
wvars == <<wpc, seen_len, batch_indices>>
lvars == <<dataset_len, batch_size, shuffle, num_workers, drop_last, order0,
           indices, lock, wpc, seen_len, batch_indices, drained,
           channel, sent, sender_alive, receiver_alive, received, last_next,
           mpc, spawned, joined>>
gvars == <<items, window, stride, overflow_checks, start_pos, end_pos,
           train_data, gpc>>
vvars == <<text, sentence, tokens_to_id, id_to_tokens, max_id, token_ids,
           decoded, vpc>>
\* What a step of the loader leaves alone: the two pure functions' state.
apart == <<gvars, vvars>>
vars == <<lvars, gvars, vvars>>

\* ----------------------------------------------------------------- helpers
Min(a, b) == IF a < b THEN a ELSE b

\* VecDeque::drain(0..n) yields the first n elements ...
Front(s, n) == SubSeq(s, 1, n)

\* Mutant: the drained elements are copied, not removed.
RestKeepsAll(s, n) == s

\* ... and leaves the rest in the queue.
Rest(s, n) == SubSeq(s, n + 1, Len(s))

\* (0..n).collect(): the indices 0, 1, ..., n-1 in ascending order.
Identity(n) == [k \in 1..n |-> k - 1]

\* indices.shuffle(rng): any permutation of the index vector can result.
Shuffles(n) ==
    IF n = 0 THEN {<<>>}
    ELSE {[k \in 1..n |-> p[k] - 1] : p \in Permutations(1..n)}

\* The dataset of the crate's tests: data = (0..n).collect(), so that the
\* item stored at index i is the number i.
Data == [k \in 1..dataset_len |-> k - 1]

\* Dataset::get(index) = &self.data[index] (0-based).
Get(i) == Data[i + 1]

WorkerIds == 1..MaxWorkers

\* A worker thread that was spawned and has not finished owns a sender clone.
Running(w) == wpc[w] \notin {"unspawned", "exited", "panicked"}
Terminated(w) == wpc[w] \in {"exited", "panicked"}

\* recv() reports disconnection when no sender is left.
NoSender == ~sender_alive /\ \A w \in WorkerIds : ~Running(w)

\* ------------------------------------------------------------------- Init
\* gen_rnn_train_data is not being called.
GenIdle ==
    /\ items = <<>> /\ window = 0 /\ stride = 0 /\ overflow_checks = FALSE
    /\ start_pos = 0 /\ end_pos = 0 /\ train_data = <<>> /\ gpc = "idle"

\* No Vocabulary is in use.
VocabIdle ==
    /\ text = <<>> /\ sentence = <<>> /\ tokens_to_id = <<>>
    /\ id_to_tokens = <<>> /\ max_id = 0 /\ token_ids = <<>>
    /\ decoded = "" /\ vpc = "idle"

Init ==
    /\ GenIdle
    /\ VocabIdle
    /\ dataset_len \in 0..MaxLen
    /\ batch_size \in 0..MaxBatch
    /\ shuffle \in BOOLEAN
    /\ num_workers \in 0..MaxWorkers
    /\ drop_last \in BOOLEAN
    /\ order0 \in (IF shuffle THEN Shuffles(dataset_len)
                              ELSE {Identity(dataset_len)})
    /\ indices = order0
    /\ lock = 0
    /\ wpc = [w \in WorkerIds |-> "unspawned"]
    /\ seen_len = [w \in WorkerIds |-> 0]
    /\ batch_indices = [w \in WorkerIds |-> <<>>]
    /\ drained = <<>>
    /\ channel = <<>>
    /\ sent = 0
    /\ sender_alive = TRUE
    /\ receiver_alive = TRUE
    /\ received = <<>>
    /\ last_next = "not_called"
    /\ mpc = "new"
    /\ spawned = 0
    /\ joined = 0

\* ---------------------------------------------------------- worker thread
\* indices.lock(): blocks until the mutex is free, then holds it.  The
\* mutex is never poisoned: nothing between lock and release can panic.
\* Mutant: the lock is taken without waiting for its holder to release it.
AcquireNoWait(w) == lock' = w

Acquire(w) == lock = 0 /\ lock' = w

\* The MutexGuard goes out of scope (end of the block, or break).
Release(w) == lock' = 0

\* The test at the head of the critical section:
\*   if indices.len() < batch_size { if drop_last || indices.is_empty() { break } }
\* Mutant: any short remainder ends the loop, whatever drop_last says.
ExhaustedAlwaysDrops == Len(indices) < batch_size

\* Mutant: drop_last is ignored, only an empty queue ends the loop.
ExhaustedNeverDrops == Len(indices) < batch_size /\ indices = <<>>

Exhausted == Len(indices) < batch_size /\ (drop_last \/ indices = <<>>)

\* let len = indices.len(); indices.drain(0..min(batch_size, len))
\* Mutant: the drained range is the whole queue (drain(..)), not a batch.
DrainCountWholeQueue == Len(indices)

DrainCount == Min(batch_size, Len(indices))

\* Mutant: the slice is walked from its back (into_iter().rev()).
MapItemsReversed(bi) == [k \in 1..Len(bi) |-> Get(bi[Len(bi) + 1 - k])]

\* batch_indices.into_iter().map(|i| dataset.get(i).clone()).collect()
MapItems(bi) == [k \in 1..Len(bi) |-> Get(bi[k])]

\* Top of the loop: take the queue's lock.
LockQueue(w) ==
    /\ wpc[w] = "lock"
    /\ Acquire(w)
    /\ wpc' = [wpc EXCEPT ![w] = "check"]
    /\ UNCHANGED <<apart, config, indices, seen_len, batch_indices, drained,
                   channel, sent, sender_alive, receiver_alive, received,
                   last_next, mpc, spawned, joined>>

\* The length check, holding the lock: break out of the loop (the guard and
\* then the thread's sender clone are dropped, the thread finishes), or go on
\* to the drain.
CheckLen(w) ==
    /\ wpc[w] = "check"
    /\ IF Exhausted
         THEN /\ Release(w)
              /\ wpc' = [wpc EXCEPT ![w] = "exited"]
              /\ UNCHANGED seen_len
         ELSE /\ wpc' = [wpc EXCEPT ![w] = "drain"]
              /\ seen_len' = [seen_len EXCEPT ![w] = Len(indices)]
              /\ UNCHANGED lock
    /\ UNCHANGED <<apart, config, indices, batch_indices, drained, channel, sent,
                   sender_alive, receiver_alive, received, last_next, mpc,
                   spawned, joined>>

\* Mutant: the slice is split off the back of the queue.
DrainFromBack(w) ==
    /\ wpc[w] = "drain"
    /\ batch_indices' = [batch_indices EXCEPT
            ![w] = SubSeq(indices, Len(indices) - DrainCount + 1, Len(indices))]
    /\ indices' = SubSeq(indices, 1, Len(indices) - DrainCount)
    /\ drained' = Append(drained,
            SubSeq(indices, Len(indices) - DrainCount + 1, Len(indices)))
    /\ Release(w)
    /\ seen_len' = [seen_len EXCEPT ![w] = 0]
    /\ wpc' = [wpc EXCEPT ![w] = "batch"]
    /\ UNCHANGED <<apart, config, channel, sent, sender_alive, receiver_alive,
                   received, last_next, mpc, spawned, joined>>

\* The drain, still holding the lock, which the end of the block releases.
Drain(w) ==
    /\ wpc[w] = "drain"
    /\ batch_indices' = [batch_indices EXCEPT ![w] = Front(indices, DrainCount)]
    /\ indices' = Rest(indices, DrainCount)
    /\ drained' = Append(drained, Front(indices, DrainCount))
    /\ Release(w)
    /\ seen_len' = [seen_len EXCEPT ![w] = 0]
    /\ wpc' = [wpc EXCEPT ![w] = "batch"]
    /\ UNCHANGED <<apart, config, channel, sent, sender_alive, receiver_alive,
                   received, last_next, mpc, spawned, joined>>

\* if batch_indices.is_empty() { break }: the thread finishes.
BreakEmpty(w) ==
    /\ wpc[w] = "batch"
    /\ batch_indices[w] = <<>>
    /\ wpc' = [wpc EXCEPT ![w] = "exited"]
    /\ UNCHANGED <<apart, config, indices, lock, seen_len, batch_indices, drained,
                   channel, sent, sender_alive, receiver_alive, received,
                   last_next, mpc, spawned, joined>>

\* Mutant: the slice is not tested for emptiness before the batch is sent.
SendEvenEmpty(w) ==
    /\ wpc[w] = "batch"
    /\ receiver_alive
    /\ channel' = Append(channel, MapItems(batch_indices[w]))
    /\ sent' = sent + 1
    /\ batch_indices' = [batch_indices EXCEPT ![w] = <<>>]
    /\ wpc' = [wpc EXCEPT ![w] = "lock"]
    /\ UNCHANGED <<apart, config, indices, lock, seen_len, drained, sender_alive,
                   receiver_alive, received, last_next, mpc, spawned, joined>>

\* Mutant: the channel is bounded(1): a send waits while a batch is buffered.
SendBounded(w) ==
    /\ wpc[w] = "batch"
    /\ batch_indices[w] # <<>>
    /\ receiver_alive
    /\ channel = <<>>
    /\ channel' = Append(channel, MapItems(batch_indices[w]))
    /\ sent' = sent + 1
    /\ batch_indices' = [batch_indices EXCEPT ![w] = <<>>]
    /\ wpc' = [wpc EXCEPT ![w] = "lock"]
    /\ UNCHANGED <<apart, config, indices, lock, seen_len, drained, sender_alive,
                   receiver_alive, received, last_next, mpc, spawned, joined>>

\* Build the batch from the slice (thread-local work) and
\* sender.send(batch).unwrap() while the receiver exists: the channel is
\* unbounded, so the send never waits.  Then the loop starts over.
Send(w) ==
    /\ wpc[w] = "batch"
    /\ batch_indices[w] # <<>>
    /\ receiver_alive
    /\ channel' = Append(channel, MapItems(batch_indices[w]))
    /\ sent' = sent + 1
    /\ batch_indices' = [batch_indices EXCEPT ![w] = <<>>]
    /\ wpc' = [wpc EXCEPT ![w] = "lock"]
    /\ UNCHANGED <<apart, config, indices, lock, seen_len, drained, sender_alive,
                   receiver_alive, received, last_next, mpc, spawned, joined>>

\* sender.send(batch).unwrap() after the receiver was released: send returns
\* Err and unwrap panics; the batch is lost with the thread.
SendFail(w) ==
    /\ wpc[w] = "batch"
    /\ batch_indices[w] # <<>>
    /\ ~receiver_alive
    /\ batch_indices' = [batch_indices EXCEPT ![w] = <<>>]
    /\ wpc' = [wpc EXCEPT ![w] = "panicked"]
    /\ UNCHANGED <<apart, config, indices, lock, seen_len, drained, channel, sent,
                   sender_alive, receiver_alive, received, last_next, mpc,
                   spawned, joined>>

\* T::clone is the caller's code and may panic while the batch is built:
\* the thread unwinds, its slice is lost and its sender clone is dropped.
ClonePanic(w) ==
    /\ wpc[w] = "batch"
    /\ batch_indices[w] # <<>>
    /\ batch_indices' = [batch_indices EXCEPT ![w] = <<>>]
    /\ wpc' = [wpc EXCEPT ![w] = "panicked"]
    /\ UNCHANGED <<apart, config, indices, lock, seen_len, drained, channel, sent,
                   sender_alive, receiver_alive, received, last_next, mpc,
                   spawned, joined>>

\* ---------------------------------------------------------- caller thread
\* Mutant: the spawn loop runs over 0..=num_workers.
SpawnOffByOne ==
    /\ mpc = "new"
    /\ spawned <= num_workers
    /\ spawned < MaxWorkers
    /\ wpc' = [wpc EXCEPT ![spawned + 1] = "lock"]
    /\ spawned' = spawned + 1
    /\ UNCHANGED <<apart, config, indices, lock, seen_len, batch_indices, drained,
                   channel, sent, sender_alive, receiver_alive, received,
                   last_next, mpc, joined>>

\* One round of `for _ in 0..num_workers`: clone the sender, spawn the
\* thread, push its handle.
Spawn ==
    /\ mpc = "new"
    /\ spawned < num_workers
    /\ wpc' = [wpc EXCEPT ![spawned + 1] = "lock"]
    /\ spawned' = spawned + 1
    /\ UNCHANGED <<apart, config, indices, lock, seen_len, batch_indices, drained,
                   channel, sent, sender_alive, receiver_alive, received,
                   last_next, mpc, joined>>

\* Mutant: the sender new holds is not dropped before the loader is returned.
DropSenderForgotten ==
    /\ mpc = "new"
    /\ spawned = num_workers
    /\ mpc' = "ready"
    /\ UNCHANGED <<apart, config, indices, lock, wvars, drained, channel, sent,
                   sender_alive, receiver_alive, received, last_next,
                   spawned, joined>>

\* drop(sender) and the return of the DataLoader.
DropSender ==
    /\ mpc = "new"
    /\ spawned = num_workers
    /\ sender_alive' = FALSE
    /\ mpc' = "ready"
    /\ UNCHANGED <<apart, config, indices, lock, wvars, drained, channel, sent,
                   receiver_alive, received, last_next, spawned, joined>>

\* Mutant: next does not wait (receiver.try_recv().ok()): an empty channel
\* gives None whether or not a sender is left.
IterNextTryRecv ==
    /\ mpc = "ready"
    /\ \/ /\ channel # <<>>
          /\ received' = Append(received, Head(channel))
          /\ channel' = Tail(channel)
          /\ last_next' = "Some"
       \/ /\ channel = <<>>
          /\ last_next' = "None"
          /\ UNCHANGED <<channel, received>>
    /\ UNCHANGED <<apart, config, indices, lock, wvars, drained, sent, sender_alive,
                   receiver_alive, mpc, spawned, joined>>

\* DataLoaderIter::next = receiver.recv().ok(): a buffered batch if there is
\* one, None once the channel is empty and disconnected, and otherwise the
\* call blocks (no step).
IterNext ==
    /\ mpc = "ready"
    /\ \/ /\ channel # <<>>
          /\ received' = Append(received, Head(channel))
          /\ channel' = Tail(channel)
          /\ last_next' = "Some"
       \/ /\ channel = <<>>
          /\ NoSender
          /\ last_next' = "None"
          /\ UNCHANGED <<channel, received>>
    /\ UNCHANGED <<apart, config, indices, lock, wvars, drained, sent, sender_alive,
                   receiver_alive, mpc, spawned, joined>>

\* The loader goes out of scope: Drop::drop begins.
DropLoader ==
    /\ mpc = "ready"
    /\ mpc' = "drop"
    /\ UNCHANGED <<apart, config, indices, lock, wvars, drained, channel, sent,
                   sender_alive, receiver_alive, received, last_next,
                   spawned, joined>>

\* handle.join().unwrap() on a thread that finished normally.
JoinOk ==
    /\ mpc = "drop"
    /\ joined < num_workers
    /\ wpc[joined + 1] = "exited"
    /\ joined' = joined + 1
    /\ UNCHANGED <<apart, config, indices, lock, wvars, drained, channel, sent,
                   sender_alive, receiver_alive, received, last_next, mpc,
                   spawned>>

\* Mutant: the result of join is discarded (let _ = handle.join()).
JoinPanicSwallowed ==
    /\ mpc = "drop"
    /\ joined < num_workers
    /\ wpc[joined + 1] = "panicked"
    /\ joined' = joined + 1
    /\ UNCHANGED <<apart, config, indices, lock, wvars, drained, channel, sent,
                   sender_alive, receiver_alive, received, last_next, mpc,
                   spawned>>

\* handle.join().unwrap() on a thread that panicked: join returns Err and
\* unwrap panics inside drop.  Unwinding drops the Drain iterator with the
\* handles not yet joined (those threads are detached) and then the
\* loader's fields, the receiver among them.
JoinPanic ==
    /\ mpc = "drop"
    /\ joined < num_workers
    /\ wpc[joined + 1] = "panicked"
    /\ mpc' = "drop_panicked"
    /\ receiver_alive' = FALSE
    /\ channel' = <<>>
    /\ UNCHANGED <<apart, config, indices, lock, wvars, drained, sent, sender_alive,
                   received, last_next, spawned, joined>>

\* Every handle is joined: drop returns and the fields are released.
FinishDrop ==
    /\ mpc = "drop"
    /\ joined = num_workers
    /\ mpc' = "dropped"
    /\ receiver_alive' = FALSE
    /\ channel' = <<>>
    /\ UNCHANGED <<apart, config, indices, lock, wvars, drained, sent, sender_alive,
                   received, last_next, spawned, joined>>

\* ---------------------------------------------------------- specifications
WorkerStep(w) ==
    \/ LockQueue(w)
    \/ CheckLen(w)
    \/ Drain(w)
    \/ BreakEmpty(w)
    \/ Send(w)

\* Construction and iteration: the consumer keeps calling next.
NextIter ==
    \/ Spawn
    \/ DropSender
    \/ IterNext
    \/ \E w \in WorkerIds : WorkerStep(w)

\* ... and may tear the loader down at any time after construction.
Next ==
    \/ NextIter
    \/ DropLoader
    \/ JoinOk
    \/ FinishDrop

\* ... and a clone may panic.
NextFault ==
    \/ Next
    \/ JoinPanic
    \/ \E w \in WorkerIds : ClonePanic(w) \/ SendFail(w)

Spec == Init /\ [][Next]_vars

SpecFault == Init /\ [][NextFault]_vars

\* Threads are scheduled fairly: a thread that can take a step takes one.
SpecLive ==
    /\ Init
    /\ [][NextIter]_vars
    /\ WF_vars(Spawn)
    /\ WF_vars(DropSender)
    /\ WF_vars(IterNext)
    /\ \A w \in WorkerIds : WF_vars(WorkerStep(w))

\* The loader built with shuffle = false.
InitUnshuffled == Init /\ ~shuffle

\* Teardown under fair scheduling: the threads and Drop::drop keep running;
\* whether the consumer calls next or drops the loader is its own choice.
\* Which index sits where in the queue plays no part in who waits for
\* whom, so the queue is taken in ascending order.
SpecTeardown ==
    /\ InitUnshuffled
    /\ [][Next]_vars
    /\ WF_vars(Spawn)
    /\ WF_vars(DropSender)
    /\ WF_vars(JoinOk)
    /\ WF_vars(FinishDrop)
    /\ \A w \in WorkerIds : WF_vars(WorkerStep(w))

\* No DataLoader exists.
LoaderIdle ==
    /\ dataset_len = 0 /\ batch_size = 0 /\ shuffle = FALSE
    /\ num_workers = 0 /\ drop_last = FALSE /\ order0 = <<>>
    /\ indices = <<>> /\ lock = 0
    /\ wpc = [w \in WorkerIds |-> "unspawned"]
    /\ seen_len = [w \in WorkerIds |-> 0]
    /\ batch_indices = [w \in WorkerIds |-> <<>>]
    /\ drained = <<>> /\ channel = <<>> /\ sent = 0
    /\ sender_alive = FALSE /\ receiver_alive = FALSE
    /\ received = <<>> /\ last_next = "not_called"
    /\ mpc = "idle" /\ spawned = 0 /\ joined = 0

\* ------------------------------------------------------ gen_rnn_train_data
\* The most pairs a call with stride >= 1 can return is items.len(); with
\* stride = 0 train_data grows without end, and the model stops counting
\* the pairs beyond this many.
MaxPairs == MaxItems + 1

\* items[a..b] (0-based, half-open) is in range when a <= b <= items.len().
InRange(a, b) == a <= b /\ b <= Len(items)

\* items[a..b].iter().cloned().collect()
Slice(a, b) == SubSeq(items, a + 1, b)

\* The state on entry to the loop: train_data = vec![], start_pos = 0,
\* end_pos = start_pos + batch_size.  The items are those of the crate's
\* test, (0..n).collect().
GenInit ==
    /\ LoaderIdle
    /\ VocabIdle
    /\ items \in {Identity(n) : n \in 0..MaxItems}
    /\ window \in 0..MaxWindow
    /\ stride \in 0..MaxStride
    /\ overflow_checks \in BOOLEAN
    /\ start_pos = 0
    /\ end_pos = window
    /\ train_data = <<>>
    /\ gpc = "loop"

\* items.len() - 1 overflows (usize) exactly when items is empty.
SubOverflows == Len(items) = 0

\* Mutant: the bound is items.len(), without the - 1.
BreakTestNoMinusOne == end_pos > Len(items)

\* Mutant: the bound is items.len().saturating_sub(1).
BreakTestSaturating ==
    end_pos > (IF Len(items) = 0 THEN 0 ELSE Len(items) - 1)

\* if end_pos > items.len() - 1 { break }, once the subtraction has not
\* panicked: where it wrapped, the bound is usize::MAX and no end_pos
\* exceeds it.
BreakTest == IF SubOverflows THEN FALSE ELSE end_pos > Len(items) - 1

\* Mutant: start_pos += stride is left out.
NextStartStuck == start_pos

\* start_pos += stride
NextStart == start_pos + stride

\* One round of the loop, or the break out of it and the return.
GenStep ==
    /\ gpc = "loop"
    /\ IF SubOverflows /\ overflow_checks
         THEN \* attempt to subtract with overflow
              /\ gpc' = "panicked"
              /\ UNCHANGED <<start_pos, end_pos, train_data>>
         ELSE IF BreakTest
         THEN /\ gpc' = "done"
              /\ UNCHANGED <<start_pos, end_pos, train_data>>
         ELSE IF ~(InRange(start_pos, end_pos) /\ InRange(start_pos + 1, end_pos + 1))
         THEN \* a slice index out of range
              /\ gpc' = "panicked"
              /\ UNCHANGED <<start_pos, end_pos, train_data>>
         ELSE /\ train_data' =
                    IF Len(train_data) < MaxPairs
                      THEN Append(train_data,
                                  [feature |-> Slice(start_pos, end_pos),
                                   label |-> Slice(start_pos + 1, end_pos + 1)])
                      ELSE train_data
              /\ start_pos' = NextStart
              /\ end_pos' = NextStart + window
              /\ UNCHANGED gpc
    /\ UNCHANGED <<items, window, stride, overflow_checks>>
    /\ UNCHANGED <<lvars, vvars>>

GenNext == GenStep

SpecGen == GenInit /\ [][GenNext]_vars

\* The call runs on: a loop that can take a round takes it.
SpecGenLive == GenInit /\ [][GenNext]_vars /\ WF_vars(GenStep)

\* -------------------------------------------------------------- Vocabulary
EOF_TOKEN == "<eof>"
PADDING_TOKEN == "<pad>"
UNKNOWN_TOKEN == "<unk>"

\* The tokens the segmenter yields here, listed in the order of str's Ord
\* (bytewise).  Jieba::cut splits "<unk>", "<pad>" and "<eof>" at their
\* angle brackets, so none of the three is ever a token of a text.
Alphabet == <<"a", "ab", "b">>

\* The texts of at most n tokens: a text is given by the tokens
\* Vocabulary::tokenize_sentence cuts it into, and is their concatenation.
Texts(n) == UNION {[1..k -> {Alphabet[i] : i \in 1..Len(Alphabet)}] : k \in 0..n}

\* tokens.into_iter().collect::<String>()
RECURSIVE Concat(_)
Concat(toks) == IF toks = <<>> THEN "" ELSE Head(toks) \o Concat(Tail(toks))

\* Vocabulary::unique_tokens: the distinct tokens, sorted.
RECURSIVE SortedFrom(_, _)
SortedFrom(set, i) ==
    IF i > Len(Alphabet) THEN <<>>
    ELSE (IF Alphabet[i] \in set THEN <<Alphabet[i]>> ELSE <<>>)
            \o SortedFrom(set, i + 1)

unique_tokens(tokens) == SortedFrom({tokens[k] : k \in 1..Len(tokens)}, 1)

\* Mutant: max_id += 1 is left out.
add_token_no_increment(v, token) ==
    IF token \in DOMAIN v.tokens_to_id
      THEN v
      ELSE [tokens_to_id |-> v.tokens_to_id @@ (token :> v.max_id),
            id_to_tokens |-> Append(v.id_to_tokens, token),
            max_id |-> v.max_id]

\* Vocabulary::add_token, on the vocabulary v; returns the vocabulary after
\* the call.
add_token(v, token) ==
    IF token \in DOMAIN v.tokens_to_id
      THEN v
      ELSE [tokens_to_id |-> v.tokens_to_id @@ (token :> v.max_id),
            id_to_tokens |-> Append(v.id_to_tokens, token),
            max_id |-> v.max_id + 1]

\* for tokens in tokens { self.add_token(&tokens) }
RECURSIVE add_each(_, _)
add_each(v, tokens) ==
    IF tokens = <<>> THEN v
    ELSE add_each(add_token(v, Head(tokens)), Tail(tokens))

\* Vocabulary::add_tokens
add_tokens(v, tokens) == add_each(v, unique_tokens(tokens))

\* Vocabulary::get_id
get_id(token) ==
    IF token \in DOMAIN tokens_to_id THEN tokens_to_id[token]
    ELSE tokens_to_id[UNKNOWN_TOKEN]

\* Vocabulary::get_token: the tokens of the ids that are in range (Some).
get_token(id) ==
    IF id + 1 \in 1..Len(id_to_tokens) THEN <<id_to_tokens[id + 1]>> ELSE <<>>

\* Vocabulary::encode_chinese
encode_chinese(tokens) == [k \in 1..Len(tokens) |-> get_id(tokens[k])]

\* decode_chinese, before the final collect: the tokens of the ids.
RECURSIVE decode_tokens(_)
decode_tokens(ids) ==
    IF ids = <<>> THEN <<>> ELSE get_token(Head(ids)) \o decode_tokens(Tail(ids))

\* Vocabulary::decode_chinese
decode_chinese(ids) == Concat(decode_tokens(ids))

\* A text and a sentence are chosen; Vocabulary::new is about to run.
VocabInit ==
    /\ LoaderIdle
    /\ GenIdle
    /\ text \in Texts(MaxText)
    /\ sentence \in Texts(MaxText)
    /\ tokens_to_id = <<>>
    /\ id_to_tokens = <<>>
    /\ max_id = 0
    /\ token_ids = <<>>
    /\ decoded = ""
    /\ vpc = "new"

\* Vocabulary::new(text, SentenceType::Chinese)
VocabNew ==
    /\ vpc = "new"
    /\ LET v0 == [tokens_to_id |-> <<>>, id_to_tokens |-> <<>>, max_id |-> 0]
           v1 == add_token(v0, UNKNOWN_TOKEN)
           v2 == add_token(v1, PADDING_TOKEN)
           v3 == add_token(v2, EOF_TOKEN)
           v4 == add_tokens(v3, text)
       IN  /\ tokens_to_id' = v4.tokens_to_id
           /\ id_to_tokens' = v4.id_to_tokens
           /\ max_id' = v4.max_id
    /\ vpc' = "encode"
    /\ UNCHANGED <<text, sentence, token_ids, decoded>>
    /\ UNCHANGED <<lvars, gvars>>

\* vocab.encode(sentence)
VocabEncode ==
    /\ vpc = "encode"
    /\ token_ids' = encode_chinese(sentence)
    /\ vpc' = "decode"
    /\ UNCHANGED <<text, sentence, tokens_to_id, id_to_tokens, max_id, decoded>>
    /\ UNCHANGED <<lvars, gvars>>

\* vocab.decode(&token_ids)
VocabDecode ==
    /\ vpc = "decode"
    /\ decoded' = decode_chinese(token_ids)
    /\ vpc' = "done"
    /\ UNCHANGED <<text, sentence, tokens_to_id, id_to_tokens, max_id, token_ids>>
    /\ UNCHANGED <<lvars, gvars>>

VocabNext == VocabNew \/ VocabEncode \/ VocabDecode

SpecVocab == VocabInit /\ [][VocabNext]_vars

\* ------------------------------------------------------------ claim helpers
RECURSIVE Flatten(_)
Flatten(ss) == IF ss = <<>> THEN <<>> ELSE Head(ss) \o Flatten(Tail(ss))

Range(s) == {s[k] : k \in 1..Len(s)}

NoDup(s) == \A i, j \in 1..Len(s) : i # j => s[i] # s[j]

\* batch_size >= 1 and num_workers >= 1
Valid == batch_size >= 1 /\ num_workers >= 1

\* The items of the batches the consumer received, in order of receipt.  The
\* item at index i is i (Data), so these are the delivered indices.
Delivered == Flatten(received)

\* The slices the workers hold.
Held == Flatten([w \in WorkerIds |-> batch_indices[w]])

\* Every batch sent so far and not discarded, in sending order.
Emitted == received \o channel

\* floor(len / batch_size) * batch_size
FullCount == (dataset_len \div batch_size) * batch_size

\* The workers inside the critical section.
InCritical == {w \in WorkerIds : wpc[w] \in {"check", "drain"}}

\* ------------------------------------------------------------------ claims
\* C1 (coverage): with drop_last = false, batch_size >= 1 and num_workers >= 1,
\* once next has returned None the batches received hold every index of
\* 0..len-1 exactly once, whatever the initial permutation and interleaving.
C1_Coverage ==
    (Valid /\ ~drop_last /\ last_next = "None") =>
        /\ Len(Delivered) = dataset_len
        /\ Range(Delivered) = 0..(dataset_len - 1)

\* C1 case: a shuffled three-item dataset, two workers, batches of two: the
\* short batch overtook the full one and the consumer has seen None.
C1_Witness ==
    /\ last_next = "None" /\ ~drop_last /\ num_workers = 2 /\ batch_size = 2
    /\ dataset_len = 3 /\ order0 # Identity(3)
    /\ Len(received) = 2 /\ Len(received[1]) = 1

\* C2 (drop semantics): with drop_last = true, batch_size >= 1 and
\* num_workers >= 1, the indices delivered once next has returned None number
\* floor(len / batch_size) * batch_size, and the last len mod batch_size
\* indices of the initial order stay in the queue and are in no batch, ever.
C2_DropSemantics ==
    (Valid /\ drop_last) =>
        /\ last_next = "None" =>
              /\ Len(Delivered) = FullCount
              /\ indices = Rest(order0, FullCount)
        /\ Range(Rest(order0, FullCount)) \subseteq Range(indices)
        /\ Range(Rest(order0, FullCount))
              \cap (Range(Held) \cup Range(Flatten(Emitted))) = {}

\* C2 case: three items, batches of two, two workers, drop_last: iteration
\* ended with one batch delivered and one index left in the queue.
C2_Witness ==
    /\ drop_last /\ last_next = "None" /\ num_workers = 2 /\ batch_size = 2
    /\ dataset_len = 3 /\ Len(received) = 1 /\ Len(indices) = 1

\* C3 (batch sizing): with batch_size >= 1 every batch sent has batch_size
\* items, except that with drop_last = false and len mod batch_size # 0 one
\* batch, built from the last slice drained (the one that emptied the
\* queue), has len mod batch_size items; with num_workers >= 1 the consumer
\* has received ceil(len / batch_size) batches (drop_last = false) resp.
\* floor(len / batch_size) batches (drop_last = true) when next returns None.
C3_BatchSizing ==
    (batch_size >= 1) =>
        LET short == {k \in 1..Len(Emitted) : Len(Emitted[k]) # batch_size}
            rem == dataset_len % batch_size
        IN  /\ \A k \in short :
                  /\ ~drop_last /\ rem # 0
                  /\ Len(Emitted[k]) = rem
                  /\ indices = <<>>
                  /\ Emitted[k] = MapItems(drained[Len(drained)])
            /\ Cardinality(short) <= 1
            /\ (num_workers >= 1 /\ last_next = "None") =>
                  /\ Cardinality(short) = (IF ~drop_last /\ rem # 0 THEN 1 ELSE 0)
                  /\ Len(received) = (dataset_len \div batch_size)
                        + (IF ~drop_last /\ rem # 0 THEN 1 ELSE 0)

\* C3 case: the scenario of the spec scaled down (len 3, batch_size 2, two
\* workers, drop_last = false): sizes {2, 1}, all received.
C3_Witness ==
    /\ ~drop_last /\ last_next = "None" /\ num_workers = 2 /\ batch_size = 2
    /\ dataset_len = 3 /\ Len(received) = 2
    /\ Len(received[1]) = 2 /\ Len(received[2]) = 1

\* C4 (disjoint slices): at most one worker is inside the check-and-drain
\* critical section and it holds the lock; the queue a worker drains is the
\* queue its length check read; no index is drained twice, and the slices
\* held by workers, buffered in the channel and received are pairwise
\* disjoint.
C4_DisjointSlices ==
    /\ Cardinality(InCritical) <= 1
    /\ \A w \in InCritical : lock = w
    /\ \A w \in WorkerIds : wpc[w] = "drain" => seen_len[w] = Len(indices)
    /\ NoDup(Flatten(drained))
    /\ NoDup(Held \o Flatten(Emitted))

\* C4 case: one worker is between its check and its drain while another
\* holds a slice drained earlier and a batch built from a third slice is in
\* the channel.
C4_Witness ==
    \E w1, w2 \in WorkerIds :
        /\ w1 # w2
        /\ wpc[w1] = "drain"
        /\ wpc[w2] = "batch" /\ batch_indices[w2] # <<>>
        /\ channel # <<>>

\* The workers DataLoader::new was asked for.
Workers == 1..num_workers

\* Iteration has ended and every worker has left its loop normally.
AllDone == last_next = "None" /\ \A w \in Workers : wpc[w] = "exited"

\* C5 (termination): with batch_size >= 1 and num_workers >= 1, under fair
\* scheduling every worker eventually exits its loop and a consumer that
\* keeps calling next eventually receives None (and is from then on never
\* waiting in recv).
C5_Termination == Valid => <>[]AllDone

\* C5 case: two workers delivered two batches between them, both have
\* exited and the consumer has received None.
C5_Witness ==
    /\ AllDone /\ num_workers = 2 /\ batch_size = 1 /\ dataset_len = 3
    /\ Len(received) = 3 /\ spawned = 2

\* C6 (join on teardown), as claimed: the receiver is released only after
\* every worker thread has terminated, so that no worker is running once the
\* loader is destroyed.
C6_JoinBeforeRelease ==
    ~receiver_alive => \A w \in Workers : Terminated(w)

\* C7 (invalid configuration), as claimed: with batch_size = 0 construction
\* fails and no worker thread is ever started.
C7_ZeroBatchRejected ==
    batch_size = 0 => (spawned = 0 /\ mpc = "new")

\* C8 (clean end without loss): next has returned None only when every
\* worker thread has terminated, the sender of new is dropped and the
\* channel is empty, and then every batch that was sent has been received.
C8_NoneOnlyAtEnd ==
    last_next = "None" =>
        /\ \A w \in Workers : Terminated(w)
        /\ spawned = num_workers /\ ~sender_alive
        /\ channel = <<>>
        /\ Len(received) = sent

\* C8 case: two workers sent two batches, worker 1 then panicked on a later
\* slice, and the consumer received both batches before None.
C8_Witness ==
    /\ last_next = "None" /\ mpc = "ready" /\ num_workers = 2
    /\ sent = 2 /\ Len(received) = 2
    /\ wpc[1] = "panicked" /\ wpc[2] = "exited"

\* The ascending contiguous run [j*batch_size, min((j+1)*batch_size, len)),
\* for the j-th slice counted from 0.
Run(j) ==
    [k \in 1..(Min((j + 1) * batch_size, dataset_len) - j * batch_size)
        |-> j * batch_size + k - 1]

\* C9 (intra-batch order): the slices are drained from the front of the
\* queue (the drained slices, in order, followed by the queue are the initial
\* order); every batch sent holds the items of one drained slice in the
\* slice's order; with shuffle = false and batch_size >= 1 the j-th slice
\* drained is the run [j*batch_size, min((j+1)*batch_size, len)).
C9_IntraBatchOrder ==
    /\ Flatten(drained) \o indices = order0
    /\ \A k \in 1..Len(Emitted) : \E j \in 1..Len(drained) :
          /\ Len(Emitted[k]) = Len(drained[j])
          /\ \A i \in 1..Len(drained[j]) : Emitted[k][i] = Data[drained[j][i] + 1]
    /\ \A w \in WorkerIds :
          batch_indices[w] # <<>> => \E j \in 1..Len(drained) : batch_indices[w] = drained[j]
    /\ (~shuffle /\ batch_size >= 1) =>
          \A j \in 1..Len(drained) : drained[j] = Run(j - 1)

\* C9 case: shuffle = false, three items, batches of two: worker 2 drained
\* the first slice, worker 1 the second, and the second batch was sent and
\* received first.
C9_Witness ==
    /\ ~shuffle /\ num_workers = 2 /\ batch_size = 2 /\ dataset_len = 3
    /\ drained = <<(<<0, 1>>), (<<2>>)>>
    /\ received = <<(<<2>>)>>
    /\ batch_indices[2] = <<0, 1>>

\* C10 (worker failure is surfaced): Drop::drop never returns normally when
\* a worker thread has panicked; a teardown that meets a panicked worker
\* panics itself.
C10_PanicSurfaced ==
    /\ mpc = "dropped" => \A w \in WorkerIds : wpc[w] # "panicked"
    /\ (mpc = "drop" /\ joined = num_workers) =>
          \A w \in WorkerIds : wpc[w] # "panicked"

\* C10 case: the first handle was joined normally, the second worker had
\* panicked while building a batch, and the teardown panicked at its join.
C10_Witness ==
    /\ mpc = "drop_panicked" /\ num_workers = 2 /\ joined = 1
    /\ wpc[1] = "exited" /\ wpc[2] = "panicked"

\* C11 (send after the consumer is gone), as claimed: a worker whose send
\* meets a released receiver discards the batch and goes on with its loop;
\* it does not panic.
C11_SendFailureSilent ==
    [][\A w \in WorkerIds :
          (wpc[w] = "batch" /\ batch_indices[w] # <<>> /\ ~receiver_alive
              /\ wpc'[w] # wpc[w])
          => wpc'[w] = "lock"]_vars

\* The j-th consecutive slice (j = 1, 2, ...) of the initial index order.
SliceOf(j) ==
    SubSeq(order0, (j - 1) * batch_size + 1, Min(j * batch_size, dataset_len))

\* C12 (single-worker delivery order): with num_workers = 1 (and
\* batch_size >= 1) the j-th batch received holds the items of the j-th
\* consecutive slice of the initial index order, so the sequence received is
\* a function of that order alone.
C12_SingleWorkerOrder ==
    (num_workers = 1 /\ batch_size >= 1) =>
        \A j \in 1..Len(received) :
            /\ Len(received[j]) = Len(SliceOf(j))
            /\ \A i \in 1..Len(SliceOf(j)) : received[j][i] = Data[SliceOf(j)[i] + 1]

\* C12 case: one worker, a shuffled order that is not ascending, batches of
\* two over three items: both batches received, then None.
C12_Witness ==
    /\ num_workers = 1 /\ batch_size = 2 /\ dataset_len = 3 /\ ~drop_last
    /\ order0 = <<2, 0, 1>>
    /\ received = <<(<<2, 0>>), (<<1>>)>>
    /\ last_next = "None"

\* C15 (no empty batch): for every configuration, batch_size = 0 included,
\* no batch in the channel or received is empty; with batch_size = 0 nothing
\* is ever sent or held, every slice drained is empty and each worker drains
\* at most once (it exits on its first round), and the queue is untouched.
C15_NoEmptyBatch ==
    /\ \A k \in 1..Len(Emitted) : Emitted[k] # <<>>
    /\ batch_size = 0 =>
          /\ sent = 0 /\ Emitted = <<>> /\ Held = <<>>
          /\ indices = order0
          /\ Len(drained) <= spawned
          /\ \A w \in WorkerIds : wpc[w] = "exited" => lock # w

\* C15 case: batch_size = 0 over three items: both workers have drained an
\* empty slice and exited, and the consumer has been told None.
C15_Witness ==
    /\ batch_size = 0 /\ dataset_len = 3 /\ num_workers = 2
    /\ wpc[1] = "exited" /\ wpc[2] = "exited"
    /\ drained = <<(<<>>), (<<>>)>>
    /\ last_next = "None"

\* C16 (index conservation): while the loader exists the queue is a suffix
\* of the initial order, and the indices in the queue, in the slices held by
\* workers, in the channel and in the batches received are, together, each
\* index of 0..len-1 exactly once; every index drained is < len.
C16_IndexConservation ==
    receiver_alive =>
        /\ \E n \in 0..dataset_len : indices = Rest(order0, n)
        /\ LET all == indices \o Held \o Flatten(Emitted)
           IN  /\ Len(all) = dataset_len
               /\ Range(all) = 0..(dataset_len - 1)
        /\ \A i \in Range(Flatten(drained)) : i >= 0 /\ i < dataset_len

\* C16 case: three items in shuffled order, one index in each of: the
\* queue, a worker's slice and a received batch.
C16_Witness ==
    /\ receiver_alive /\ dataset_len = 3 /\ batch_size = 1
    /\ order0 # Identity(3)
    /\ Len(indices) = 1 /\ Len(Held) = 1 /\ Len(received) = 1

\* A worker is waiting: it is running and no step of it is possible.
Waiting(w) == Running(w) /\ ~ENABLED WorkerStep(w)

\* C18 (teardown without draining): a running worker only ever waits for
\* the queue lock, which another running worker then holds (never for the
\* consumer, never in send); and once Drop::drop has begun it returns,
\* whatever the consumer received, with the unreceived batches discarded.
C18_TeardownTerminates ==
    /\ [](\A w \in WorkerIds :
            Waiting(w) => (wpc[w] = "lock" /\ lock \in WorkerIds /\ Running(lock)))
    /\ [](mpc = "dropped" => channel = <<>>)
    /\ (mpc = "drop" ~> mpc = "dropped")

\* C18 case: the loader was dropped after two batches were sent and none
\* received.
C18_Witness ==
    /\ mpc = "dropped" /\ sent = 2 /\ received = <<>> /\ num_workers = 2

\* C19 (zero workers): with num_workers = 0 construction succeeds, no worker
\* is ever spawned, next never waits and never yields a batch (the channel
\* is empty and disconnected as soon as new has returned), nothing is sent
\* and the queue keeps every index.
C19_ZeroWorkers ==
    num_workers = 0 =>
        /\ \A w \in WorkerIds : wpc[w] = "unspawned"
        /\ spawned = 0 /\ sent = 0 /\ received = <<>> /\ last_next # "Some"
        /\ indices = order0
        /\ mpc = "ready" => (channel = <<>> /\ NoSender)

\* C19 case: no workers over a three-item dataset: next returned None with
\* the queue still full.
C19_Witness ==
    /\ num_workers = 0 /\ dataset_len = 3 /\ batch_size = 1
    /\ last_next = "None" /\ Len(indices) = 3

\* The number of k >= 0 with k*stride + window < items.len().
PairCount == Cardinality({k \in 0..Len(items) : k * stride + window < Len(items)})

\* The k-th pair (k = 0, 1, ...): feature = items[k*s .. k*s+w),
\* label = items[k*s+1 .. k*s+w+1).
Pair(k) ==
    [feature |-> [i \in 1..window |-> items[k * stride + i]],
     label |-> [i \in 1..window |-> items[k * stride + 1 + i]]]

\* C13 (windowing result): for N >= 1, window >= 0 and stride >= 1 the
\* function never takes a slice past the end of the input, the pairs built
\* so far are the pairs k = 0, 1, ... in increasing k, and what it returns
\* is exactly the pairs with k*stride + window < N.
C13_WindowingResult ==
    (Len(items) >= 1 /\ stride >= 1) =>
        /\ gpc # "panicked"
        /\ Len(train_data) <= PairCount
        /\ \A k \in 1..Len(train_data) : train_data[k] = Pair(k - 1)
        /\ gpc = "done" => Len(train_data) = PairCount

\* C13 case: the test of the crate scaled down (items 0..4, window 2,
\* stride 1): two pairs, the first <<0,1>> / <<1,2>>.
C13_Witness ==
    /\ gpc = "done" /\ Len(items) = 4 /\ window = 2 /\ stride = 1
    /\ Len(train_data) = 2
    /\ train_data[1] = [feature |-> <<0, 1>>, label |-> <<1, 2>>]

\* C17 (windowing on short input): for 1 <= N <= window the call returns
\* the empty list and does not panic; the call ends abnormally only for
\* N = 0, and for N = 0 it never returns normally.
C17_ShortInput ==
    /\ (Len(items) >= 1 /\ Len(items) <= window /\ gpc # "loop") =>
          (gpc = "done" /\ train_data = <<>>)
    /\ gpc = "panicked" => Len(items) = 0
    /\ Len(items) = 0 => gpc # "done"

\* C17 case: an empty input in a build with wrapping arithmetic and
\* window 0: the call ended in a slice out of range.
C17_Witness ==
    /\ Len(items) = 0 /\ ~overflow_checks /\ window = 0 /\ gpc = "panicked"

\* C20 (windowing termination): for N >= 1 and stride >= 1 start_pos grows
\* with every pair built and the call returns; with stride = 0 and
\* window < N it never returns and every pair it appends is the first pair.
C20_WindowingTermination ==
    /\ ((Len(items) >= 1 /\ stride >= 1) => <>(gpc = "done"))
    /\ [][(stride >= 1 /\ train_data' # train_data) => start_pos' > start_pos]_vars
    /\ []((Len(items) >= 1 /\ stride = 0 /\ window < Len(items)) =>
            /\ gpc = "loop"
            /\ start_pos = 0
            /\ \A k \in 1..Len(train_data) : train_data[k] = Pair(0))

\* C20 case: stride 0, window 1 over two items: the same pair was appended
\* three times and the loop is still running.
C20_Witness ==
    /\ Len(items) = 2 /\ stride = 0 /\ window = 1 /\ gpc = "loop"
    /\ Len(train_data) = 3

\* The tokens Vocabulary::new added: the three special tokens and the
\* tokens of the text.
Added == {UNKNOWN_TOKEN, PADDING_TOKEN, EOF_TOKEN} \cup {text[k] : k \in 1..Len(text)}

\* C14 (vocabulary round trip): in a Chinese-mode vocabulary distinct tokens
\* have distinct ids, get_token(get_id(t)) = t for every token added, no
\* token of the text has the id of <unk>, and for a sentence whose tokens
\* all occur in the text decode(encode(s)) gives back the tokens of s, and
\* so its text.
C14_RoundTrip ==
    vpc \in {"encode", "decode", "done"} =>
        /\ DOMAIN tokens_to_id = Added
        /\ max_id = Cardinality(Added) /\ Len(id_to_tokens) = max_id
        /\ \A t, u \in Added : t # u => get_id(t) # get_id(u)
        /\ \A t \in Added : get_token(get_id(t)) = <<t>>
        /\ \A k \in 1..Len(text) : get_id(text[k]) # get_id(UNKNOWN_TOKEN)
        /\ (vpc = "done" /\ \A k \in 1..Len(sentence) : sentence[k] \in Added) =>
              /\ Len(token_ids) = Len(sentence)
              /\ \A k \in 1..Len(sentence) :
                    id_to_tokens[token_ids[k] + 1] = sentence[k]
              /\ decoded = Concat(sentence)

\* C14 case: the text is "b" "a", the sentence "a" "b": the sorted tokens
\* got the ids 3 and 4 and the sentence came back as "ab".
C14_Witness ==
    /\ vpc = "done" /\ text = <<"b", "a">> /\ sentence = <<"a", "b">>
    /\ token_ids = <<3, 4>> /\ decoded = "ab"

=============================================================================
